---------------------------- MODULE Spec2Model ----------------------------
(***************************************************************************)
(* A model of drivers/misc/issp/issp.c: the ISSP firmware updater of a    *)
(* microcontroller (image validation, update decision, attach/detach) and *)
(* its recovery paths (sysfs reset endpoints, delayed recovery work).     *)
(*                                                                         *)
(* Conventions.                                                            *)
(*  - One thread per entry point; pc[t] is the source line the thread is   *)
(*    about to execute ("L193"), "idle" between calls.                     *)
(*  - A NULL pointer dereference faults.  A use of an object that has been *)
(*    released (devm_kfree, devres release, wake_lock_destroy,             *)
(*    destroy_workqueue) or not yet initialised is undefined: the model    *)
(*    lets it either fault or act on the stale object.                     *)
(***************************************************************************)
EXTENDS Integers, Sequences, FiniteSets, TLC

VARIABLES
    pc,               \* thread -> position
    g_issp_host,      \* "NULL" | "host"          (issp.c:34)
    hostLive,         \* the host allocation exists and is not released
    g_issp_wake_lock, \* "NULL" | "wl"            (issp.c:35)
    wlLive,           \* the wake lock allocation exists and is not released
    wlInit,           \* wake_lock_init done and not destroyed
    wlActive,         \* the wake lock is held (suspend inhibited)
    issp_workqueue,   \* "NULL" | "wq"            (issp.c:143)
    wqLive,           \* the workqueue exists and is not destroyed
    workInit,         \* INIT_DELAYED_WORK done   (issp.c:144)
    workPending,      \* issp_recovery_work is queued (timer armed)
    lockInit,         \* mutex_init(&host->issp_lock) done
    lockOwner,        \* holder of host->issp_lock, or "none"
    sysfs,            \* the registered device attributes
    fwHeld,           \* the firmware image is loaded and not released
    uc,               \* controller: "running" | "programming"
    usb,              \* dependent subsystem: "loaded" | "unloaded"
    gpioDir,          \* data/clk line direction
    gpioVal,          \* data/clk output latch
    host,             \* fields of struct issp_host
    pdata,            \* platform data
    dev,              \* what the device answers to the version read
    ret,              \* issp_probe: ret
    update,           \* issp_probe: update, "true" | "false", "unset" while
                      \* uninitialised
    calls,            \* what the programmer (issp_priv.h) has been asked to do
    out               \* the bytes issp_fw_get_byte returned since the rewind

vars == <<pc, g_issp_host, hostLive, g_issp_wake_lock, wlLive, wlInit,
          wlActive, issp_workqueue, wqLive, workInit, workPending, lockInit,
          lockOwner, sysfs, fwHeld, uc, usb, gpioDir, gpioVal, host, pdata,
          dev, ret, update, calls, out>>

-----------------------------------------------------------------------------
(* Errno values and fixed addresses. *)

EACCES == 13
EINVAL == 22
ENOMEM == 12

ISSP_FW_SECURITY_ADDR == 1048576
ISSP_FW_CHECKSUM_ADDR == 2097152

(* Bounds of the enumerated inputs. *)
MaxRecs == 3        \* records per image
MaxLen == 2         \* data bytes per record
MaxAddr == 1        \* low record addresses 0..MaxAddr

-----------------------------------------------------------------------------
(* Byte order conversions of the ihex record header. *)

cpu_to_be32(n) ==
    << (n \div 16777216) % 256, (n \div 65536) % 256, (n \div 256) % 256, n % 256 >>

cpu_to_be16(n) == << (n \div 256) % 256, n % 256 >>

be32_to_cpu(b) == b[1] * 16777216 + b[2] * 65536 + b[3] * 256 + b[4]

be16_to_cpu(b) == b[1] * 256 + b[2]

(* A record as request_ihex_firmware leaves it in memory. *)
Rec(a, d) == [addr |-> cpu_to_be32(a), len |-> cpu_to_be16(Len(d)), data |-> d]

(* ihex_next_binrec: the index of the next record, 0 (NULL) at the end. *)
ihex_next_binrec(fw, i) == IF i + 1 > Len(fw) THEN 0 ELSE i + 1

(* rec->data[k] (k from 0); a read past the record's data is a read of    *)
(* whatever follows it in memory: the byte oob.                            *)
rec_data(rec, k, oob) == IF k + 1 <= Len(rec.data) THEN rec.data[k + 1] ELSE oob

-----------------------------------------------------------------------------
(* issp_check_fw, issp.c:37-80.  st carries checks and the host fields the *)
(* scan assigns; i is the record rec points to.                            *)

check_size(addr, len, size) == addr + len = size

check_version(addr, len, version_addr) ==
    version_addr > addr /\ version_addr < addr + len

check_rec(rec, i, pd, st, oob) ==
    LET addr == be32_to_cpu(rec.addr)
        len  == be16_to_cpu(rec.len)
        size == pd.block_size * pd.blocks
        s1 == IF check_size(addr, len, size)
              THEN [st EXCEPT !.checks = @ + 1] ELSE st
        s2 == IF addr = ISSP_FW_SECURITY_ADDR
              THEN [s1 EXCEPT !.security_rec = i, !.checks = @ + 1] ELSE s1
        s3 == IF addr = ISSP_FW_CHECKSUM_ADDR
              THEN [s2 EXCEPT !.checksum_fw =
                                 ((rec_data(rec, 0, oob) * 256) % 65536)
                                 + rec_data(rec, 1, oob),
                              !.checks = @ + 1]
              ELSE s2
        s4 == IF check_version(addr, len, pd.version_addr)
              THEN [s3 EXCEPT !.version_fw =
                                 rec_data(rec, pd.version_addr - addr, oob),
                              !.checks = @ + 1]
              ELSE s3
    IN s4

RECURSIVE check_scan(_, _, _, _, _)
check_scan(fw, pd, i, st, oob) ==
    IF i = 0 THEN st
    ELSE LET s == check_rec(fw[i], i, pd, st, oob)
         IN IF s.checks = 4 THEN s
            ELSE check_scan(fw, pd, ihex_next_binrec(fw, i), s, oob)

issp_check_fw(h, pd, oob) ==
    LET st0 == [checks |-> 0, security_rec |-> h.security_rec,
                checksum_fw |-> h.checksum_fw, version_fw |-> h.version_fw]
        st  == check_scan(h.fw, pd, 1, st0, oob)
    IN [ret  |-> IF st.checks < 4 THEN -EINVAL ELSE 0,
        host |-> [h EXCEPT !.security_rec = st.security_rec,
                           !.checksum_fw = st.checksum_fw,
                           !.version_fw = st.version_fw]]

-----------------------------------------------------------------------------
(* issp_need_update, issp.c:107-135.  d is the device's answer to          *)
(* issp_read_block: d.ret its return value, d.ver the byte it stored.      *)

issp_read_block(d, idx, addr) == d

need_update_decision_Mut(ver_uc, version_fw, force_update) ==
    (ver_uc <= version_fw) \/ ((ver_uc # version_fw) /\ force_update)

need_update_decision(ver_uc, version_fw, force_update) ==
    (ver_uc < version_fw) \/ ((ver_uc # version_fw) /\ force_update)

issp_need_update(h, pd, d, upd) ==
    LET idx  == (pd.version_addr \div pd.block_size) % 256
        addr == (pd.version_addr - idx * pd.block_size) % 256
        r    == issp_read_block(d, idx, addr)
    IN IF r.ret = -EACCES
       THEN [ret |-> 0, update |-> "true", idx |-> idx, addr |-> addr]
       ELSE IF r.ret = 1
       THEN [ret |-> 0,
             update |-> IF need_update_decision(r.ver, h.version_fw,
                                                pd.force_update)
                        THEN "true" ELSE "false",
             idx |-> idx, addr |-> addr]
       ELSE [ret |-> r.ret, update |-> upd, idx |-> idx, addr |-> addr]


-----------------------------------------------------------------------------
(* Inputs. *)

FwBytes == {1, 2}

DataSeqs == UNION {[1..n -> FwBytes] : n \in 1..MaxLen}

FwAddrs == (0..MaxAddr) \cup {ISSP_FW_SECURITY_ADDR, ISSP_FW_CHECKSUM_ADDR}

FwRecords == {Rec(a, d) : a \in FwAddrs, d \in DataSeqs}

FwImages == UNION {[1..n -> FwRecords] : n \in 1..MaxRecs}

(* uint8_t *)
VerBytes == 0..255

(* kzalloc'ed struct issp_host. *)
HostZero == [fw |-> <<>>, security_rec |-> 0, checksum_fw |-> 0,
             version_fw |-> 0, cur_rec |-> 0, cur_idx |-> 0,
             si_id |-> <<0, 0, 0, 0>>]

(* The platform data of the attach model: 2 blocks of 1 byte, the version  *)
(* byte at address 1, silicon id 1.2.3.4.                                  *)
ProbePdata(force) == [block_size |-> 1, blocks |-> 2, version_addr |-> 1,
                      force_update |-> force, si_id |-> <<1, 2, 3, 4>>]

ImgValid == << Rec(0, <<2, 1>>), Rec(ISSP_FW_SECURITY_ADDR, <<1>>),
               Rec(ISSP_FW_CHECKSUM_ADDR, <<1, 2>>) >>

ImgInvalid == << Rec(0, <<2, 1>>), Rec(ISSP_FW_SECURITY_ADDR, <<1>>) >>

ProbeImages == {ImgValid, ImgInvalid}

(* The silicon id the controller reports: the expected one, or one that    *)
(* differs from it in one byte.                                            *)
SiIds == {<<1, 2, 3, 4>>, <<9, 2, 3, 4>>, <<1, 9, 3, 4>>, <<1, 2, 9, 4>>,
          <<1, 2, 3, 9>>}

(* Outcomes of issp_read_block(host, idx, addr, &ver_uc, 1): the count of  *)
(* bytes read, or a negative errno.  ver is the byte left in ver_uc.       *)
ReadRets == {1, -EACCES, -EINVAL, 0}

NoDev == [ret |-> 0, ver |-> 0]

ProbeDevs == {[ret |-> r, ver |-> v] : r \in ReadRets, v \in {0, 2}}

Threads == {"pr", "rm", "rs", "us", "sr", "wk"}

-----------------------------------------------------------------------------
(* Variable groups for UNCHANGED. *)

hwVars == <<uc, usb, gpioDir, gpioVal>>

objVars == <<g_issp_host, hostLive, g_issp_wake_lock, wlLive, wlInit,
             issp_workqueue, wqLive, workInit, lockInit, sysfs, fwHeld>>

probeVars == <<host, pdata, dev, ret, update, calls, out>>

Goto(t, l) == pc' = [pc EXCEPT ![t] = l]

(* A fault (oops) kills the calling thread where it stands: what it holds  *)
(* stays held, and the entry point is free for the next caller.            *)
Fault(t) == Goto(t, "idle")

(* The outcomes of a use of *g_issp_host and of *g_issp_wake_lock. *)
HostUse ==
    IF g_issp_host = "NULL" THEN {"oops"}
    ELSE IF hostLive THEN {"ok"} ELSE {"ok", "oops"}

WakeLockUse ==
    IF g_issp_wake_lock = "NULL" THEN {"oops"}
    ELSE IF wlLive /\ wlInit THEN {"ok"} ELSE {"ok", "oops"}

mutex_available_Mut == TRUE

(* mutex_lock(&g_issp_host->issp_lock) returns only when nobody holds it. *)
mutex_available == lockOwner = "none"

(* mutex_lock by thread t, continuing at l. *)
mutex_lock(t, l) ==
    \E o \in HostUse :
        IF o = "ok"
        THEN /\ mutex_available
             /\ lockOwner' = t
             /\ Goto(t, l)
        ELSE /\ lockOwner' = lockOwner
             /\ Fault(t)

mutex_unlock_Mut(t, l) ==
    /\ lockOwner' = lockOwner
    /\ Goto(t, l)

(* mutex_unlock by thread t, continuing at l. *)
mutex_unlock(t, l) ==
    \E o \in HostUse :
        IF o = "ok"
        THEN /\ lockOwner' = "none"
             /\ Goto(t, l)
        ELSE /\ lockOwner' = lockOwner
             /\ Fault(t)

(* wake_lock / wake_unlock on g_issp_wake_lock: the lock is a flag, not a  *)
(* count.                                                                  *)
wake_lock(t, l) ==
    \E o \in WakeLockUse :
        IF o = "ok"
        THEN /\ wlActive' = TRUE
             /\ Goto(t, l)
        ELSE /\ wlActive' = wlActive
             /\ Fault(t)

wake_unlock(t, l) ==
    \E o \in WakeLockUse :
        IF o = "ok"
        THEN /\ wlActive' = FALSE
             /\ Goto(t, l)
        ELSE /\ wlActive' = wlActive
             /\ Fault(t)

(* dev_info(&g_issp_host->pdev->dev, ...) by thread t, continuing at l. *)
dev_info(t, l) ==
    \E o \in HostUse : IF o = "ok" THEN Goto(t, l) ELSE Fault(t)

(* issp_uc_reset(): the reset pin is toggled and the controller restarts. *)
issp_uc_reset == uc' = "running"

roth_usb_unload == usb' = "unloaded"

roth_usb_reload == usb' = "loaded"

-----------------------------------------------------------------------------
(* issp_reset_set, issp.c:190-200 (write to the issp_reset attribute). *)

issp_reset_set_L192 ==
    /\ pc["rs"] = "idle"
    /\ "issp_reset" \in sysfs
    /\ wake_lock("rs", "L193")
    /\ UNCHANGED <<objVars, hwVars, probeVars, workPending, lockOwner>>

issp_reset_set_L193 ==
    /\ pc["rs"] = "L193"
    /\ mutex_lock("rs", "L194")
    /\ UNCHANGED <<objVars, hwVars, probeVars, workPending, wlActive>>

issp_reset_set_L194 ==
    /\ pc["rs"] = "L194"
    /\ issp_uc_reset
    /\ Goto("rs", "L195")
    /\ UNCHANGED <<objVars, usb, gpioDir, gpioVal, probeVars, workPending,
                   wlActive, lockOwner>>

issp_reset_set_L195 ==
    /\ pc["rs"] = "L195"
    /\ mutex_unlock("rs", "L196")
    /\ UNCHANGED <<objVars, hwVars, probeVars, workPending, wlActive>>

issp_reset_set_L196 ==
    /\ pc["rs"] = "L196"
    /\ wake_unlock("rs", "L197")
    /\ UNCHANGED <<objVars, hwVars, probeVars, workPending, lockOwner>>

issp_reset_set_L197 ==
    /\ pc["rs"] = "L197"
    /\ dev_info("rs", "idle")
    /\ UNCHANGED <<objVars, hwVars, probeVars, workPending, lockOwner, wlActive>>

(* issp_usbreset_set, issp.c:202-215 (write to issp_usbreset). *)

issp_usbreset_set_L205 ==
    /\ pc["us"] = "idle"
    /\ "issp_usbreset" \in sysfs
    /\ wake_lock("us", "L206")
    /\ UNCHANGED <<objVars, hwVars, probeVars, workPending, lockOwner>>

issp_usbreset_set_L206 ==
    /\ pc["us"] = "L206"
    /\ mutex_lock("us", "L207")
    /\ UNCHANGED <<objVars, hwVars, probeVars, workPending, wlActive>>

issp_usbreset_set_L207 ==
    /\ pc["us"] = "L207"
    /\ roth_usb_unload
    /\ Goto("us", "L208")
    /\ UNCHANGED <<objVars, uc, gpioDir, gpioVal, probeVars, workPending,
                   wlActive, lockOwner>>

issp_usbreset_set_L208 ==
    /\ pc["us"] = "L208"
    /\ issp_uc_reset
    /\ Goto("us", "L209")
    /\ UNCHANGED <<objVars, usb, gpioDir, gpioVal, probeVars, workPending,
                   wlActive, lockOwner>>

issp_usbreset_set_L209 ==
    /\ pc["us"] = "L209"
    /\ roth_usb_reload
    /\ Goto("us", "L210")
    /\ UNCHANGED <<objVars, uc, gpioDir, gpioVal, probeVars, workPending,
                   wlActive, lockOwner>>

issp_usbreset_set_L210 ==
    /\ pc["us"] = "L210"
    /\ mutex_unlock("us", "L211")
    /\ UNCHANGED <<objVars, hwVars, probeVars, workPending, wlActive>>

issp_usbreset_set_L211 ==
    /\ pc["us"] = "L211"
    /\ wake_unlock("us", "L212")
    /\ UNCHANGED <<objVars, hwVars, probeVars, workPending, lockOwner>>

issp_usbreset_set_L212 ==
    /\ pc["us"] = "L212"
    /\ dev_info("us", "idle")
    /\ UNCHANGED <<objVars, hwVars, probeVars, workPending, lockOwner, wlActive>>

(* issp_data_set, issp.c:217-229 (write to issp_data): v is the number    *)
(* parsed from the buffer, 2 standing for any value other than 0 and 1.    *)
(* The handler touches no shared state but the line, so it is one step.    *)

issp_data_set ==
    /\ "issp_data" \in sysfs
    /\ \E v \in {0, 1, 2} :
          gpioVal' = IF v \in {0, 1} THEN [gpioVal EXCEPT !.data = v] ELSE gpioVal
    /\ UNCHANGED <<pc, objVars, uc, usb, gpioDir, probeVars, workPending,
                   lockOwner, wlActive>>

(* issp_clk_set, issp.c:241-253 (write to issp_clk).  After the write,     *)
(* line 249 calls dev_err with the format string in the place of the       *)
(* device and val in the place of the format: undefined, and whether the   *)
(* writer survives it changes nothing of the driver's state.               *)

issp_clk_set ==
    /\ "issp_clk" \in sysfs
    /\ \E v \in {0, 1, 2} :
          gpioVal' = IF v \in {0, 1} THEN [gpioVal EXCEPT !.clk = v] ELSE gpioVal
    /\ UNCHANGED <<pc, objVars, uc, usb, gpioDir, probeVars, workPending,
                   lockOwner, wlActive>>

-----------------------------------------------------------------------------
(* issp_start_recovery_work, issp.c:174-188. *)

issp_start_recovery_work_L176 ==
    /\ pc["sr"] = "idle"
    /\ \E o \in HostUse :
          IF o = "oops" THEN Fault("sr")
          ELSE Goto("sr", IF issp_workqueue = "NULL" THEN "idle" ELSE "L184")
    /\ UNCHANGED <<objVars, hwVars, probeVars, workPending, lockOwner, wlActive>>

issp_start_recovery_work_L184 ==
    /\ pc["sr"] = "L184"
    /\ wake_lock("sr", "L185")
    /\ UNCHANGED <<objVars, hwVars, probeVars, workPending, lockOwner>>

(* queue_delayed_work: a no-op while the work is pending; a fault on a     *)
(* NULL workqueue or on a work item INIT_DELAYED_WORK has not set up.      *)
queue_delayed_work ==
    IF issp_workqueue = "NULL" \/ ~workInit
    THEN /\ workPending' = workPending
         /\ Fault("sr")
    ELSE \E o \in (IF wqLive THEN {"ok"} ELSE {"ok", "oops"}) :
            IF o = "ok"
            THEN /\ workPending' = TRUE
                 /\ Goto("sr", "idle")
            ELSE /\ workPending' = workPending
                 /\ Fault("sr")

issp_start_recovery_work_L185 ==
    /\ pc["sr"] = "L185"
    /\ queue_delayed_work
    /\ UNCHANGED <<objVars, hwVars, probeVars, lockOwner, wlActive>>

-----------------------------------------------------------------------------
(* issp_recovery_work_func, issp.c:146-172, run by the workqueue when the  *)
(* delay of the queued work has passed.                                    *)

recovery_work_fire ==
    /\ workPending
    /\ pc["wk"] = "idle"
    /\ workPending' = FALSE
    /\ \E o \in (IF wqLive THEN {"ok"} ELSE {"ok", "oops"}) :
          IF o = "ok" THEN Goto("wk", "L152") ELSE Fault("wk")
    /\ UNCHANGED <<objVars, hwVars, probeVars, lockOwner, wlActive>>

(* The guard check of line 153: the pointer, not the state of the lock. *)
wake_lock_check == g_issp_wake_lock # "NULL"

issp_recovery_work_func_L152 ==
    /\ pc["wk"] = "L152"
    /\ \E o \in HostUse :
          IF o = "oops" THEN Fault("wk")
          ELSE Goto("wk", IF ~wake_lock_check THEN "idle" ELSE "L162")
    /\ UNCHANGED <<objVars, hwVars, probeVars, workPending, lockOwner, wlActive>>

issp_recovery_work_func_L162 ==
    /\ pc["wk"] = "L162"
    /\ mutex_lock("wk", "L163")
    /\ UNCHANGED <<objVars, hwVars, probeVars, workPending, wlActive>>

issp_recovery_work_func_L163 ==
    /\ pc["wk"] = "L163"
    /\ roth_usb_unload
    /\ Goto("wk", "L164")
    /\ UNCHANGED <<objVars, uc, gpioDir, gpioVal, probeVars, workPending,
                   wlActive, lockOwner>>

issp_recovery_work_func_L164 ==
    /\ pc["wk"] = "L164"
    /\ issp_uc_reset
    /\ Goto("wk", "L165")
    /\ UNCHANGED <<objVars, usb, gpioDir, gpioVal, probeVars, workPending,
                   wlActive, lockOwner>>

issp_recovery_work_func_L165 ==
    /\ pc["wk"] = "L165"
    /\ roth_usb_reload
    /\ Goto("wk", "L166")
    /\ UNCHANGED <<objVars, uc, gpioDir, gpioVal, probeVars, workPending,
                   wlActive, lockOwner>>

issp_recovery_work_func_L166_Mut ==
    /\ pc["wk"] = "L166"
    /\ Goto("wk", "L167")
    /\ UNCHANGED <<objVars, hwVars, probeVars, workPending, wlActive, lockOwner>>

issp_recovery_work_func_L166 ==
    /\ pc["wk"] = "L166"
    /\ mutex_unlock("wk", "L167")
    /\ UNCHANGED <<objVars, hwVars, probeVars, workPending, wlActive>>

(* msleep(500) *)
issp_recovery_work_func_L167 ==
    /\ pc["wk"] = "L167"
    /\ Goto("wk", "L171")
    /\ UNCHANGED <<objVars, hwVars, probeVars, workPending, lockOwner, wlActive>>

issp_recovery_work_func_L171 ==
    /\ pc["wk"] = "L171"
    /\ wake_unlock("wk", "idle")
    /\ UNCHANGED <<objVars, hwVars, probeVars, workPending, lockOwner>>

-----------------------------------------------------------------------------
(* issp_probe, issp.c:271-389.  A probe that returns an error has its      *)
(* device-managed allocations released by the driver core.                 *)

(* 279-297: platform data and gpio claims, then the line directions. *)
issp_probe_L279 ==
    /\ pc["pr"] = "L279"
    /\ \E ok \in BOOLEAN :
          IF ok
          THEN /\ gpioDir' = [data |-> "in", clk |-> "out"]
               /\ gpioVal' = [gpioVal EXCEPT !.clk = 0]
               /\ ret' = 0
               /\ Goto("pr", "L299")
          ELSE /\ UNCHANGED <<gpioDir, gpioVal>>
               /\ ret' = -EINVAL
               /\ Goto("pr", "failed")
    /\ UNCHANGED <<objVars, uc, usb, host, pdata, calls, out, dev, update,
                   workPending, lockOwner, wlActive>>

(* 299-305: the host context. *)
issp_probe_L299 ==
    /\ pc["pr"] = "L299"
    /\ \E ok \in BOOLEAN :
          IF ok
          THEN /\ hostLive' = TRUE
               /\ host' = HostZero
               /\ g_issp_host' = "host"
               /\ ret' = ret
               /\ Goto("pr", "L306")
          ELSE /\ UNCHANGED <<hostLive, host, g_issp_host>>
               /\ ret' = -ENOMEM
               /\ Goto("pr", "failed")
    /\ UNCHANGED <<g_issp_wake_lock, wlLive, wlInit, issp_workqueue, wqLive,
                   workInit, lockInit, sysfs, fwHeld, hwVars, pdata, calls, out, dev,
                   update, workPending, lockOwner, wlActive>>

(* 306-310: request_ihex_firmware. *)
issp_probe_L306 ==
    /\ pc["pr"] = "L306"
    /\ \/ \E img \in ProbeImages :
             /\ host' = [host EXCEPT !.fw = img]
             /\ fwHeld' = TRUE
             /\ ret' = 0
             /\ hostLive' = hostLive
             /\ Goto("pr", "L312")
       \/ /\ UNCHANGED <<host, fwHeld>>
          /\ ret' = -EINVAL
          /\ hostLive' = FALSE
          /\ Goto("pr", "failed")
    /\ UNCHANGED <<g_issp_host, g_issp_wake_lock, wlLive, wlInit,
                   issp_workqueue, wqLive, workInit, lockInit, sysfs, hwVars,
                   pdata, calls, out, dev, update, workPending, lockOwner,
                   wlActive>>

(* 312-316: issp_check_fw. *)
issp_probe_L312 ==
    /\ pc["pr"] = "L312"
    /\ \E oob \in FwBytes :
          LET r == issp_check_fw(host, pdata, oob)
          IN /\ host' = r.host
             /\ ret' = r.ret
             /\ Goto("pr", IF r.ret # 0 THEN "L384" ELSE "L318")
    /\ UNCHANGED <<objVars, hwVars, pdata, calls, out, dev, update, workPending,
                   lockOwner, wlActive>>

(* 318: issp_uc_program puts the controller into programming mode over    *)
(* the data and clock lines and reads its silicon id.                      *)
issp_uc_program ==
    /\ uc' = "programming"
    /\ gpioDir' = [data |-> "out", clk |-> "out"]
    /\ \E id \in SiIds : host' = [host EXCEPT !.si_id = id]
    /\ calls' = [calls EXCEPT !.uc_program = @ + 1]

issp_probe_L318 ==
    /\ pc["pr"] = "L318"
    /\ issp_uc_program
    /\ \E d \in ProbeDevs : dev' = d
    /\ Goto("pr", "L320")
    /\ UNCHANGED <<objVars, usb, gpioVal, pdata, out, ret, update, workPending,
                   lockOwner, wlActive>>

(* 320-326: the silicon id. *)
si_id_mismatch(h, pd) ==
    \/ h.si_id[1] # pd.si_id[1]
    \/ h.si_id[2] # pd.si_id[2]
    \/ h.si_id[3] # pd.si_id[3]
    \/ h.si_id[4] # pd.si_id[4]

issp_probe_L320 ==
    /\ pc["pr"] = "L320"
    /\ Goto("pr", IF si_id_mismatch(host, pdata) THEN "L375" ELSE "L328")
    /\ UNCHANGED <<objVars, hwVars, probeVars, workPending, lockOwner, wlActive>>

(* 328-330: issp_need_update. *)
issp_probe_L328 ==
    /\ pc["pr"] = "L328"
    /\ LET r == issp_need_update(host, pdata, dev, update)
       IN /\ ret' = r.ret
          /\ update' = r.update
          /\ calls' = [calls EXCEPT !.read_block = <<r.idx, r.addr>>]
          /\ Goto("pr", IF r.ret # 0 THEN "L375" ELSE "L331")
    /\ UNCHANGED <<objVars, hwVars, host, pdata, out, dev, workPending,
                   lockOwner, wlActive>>

(* 331: if (update); the value of an update nobody assigned is arbitrary. *)
issp_probe_L331 ==
    /\ pc["pr"] = "L331"
    /\ \E u \in (IF update = "unset" THEN {"true", "false"} ELSE {update}) :
          Goto("pr", IF u = "true" THEN "L332" ELSE "L339")
    /\ UNCHANGED <<objVars, hwVars, probeVars, workPending, lockOwner, wlActive>>

(* 332-336: issp_program succeeds or fails. *)
issp_probe_L332 ==
    /\ pc["pr"] = "L332"
    /\ \E ok \in BOOLEAN : ret' = IF ok THEN 0 ELSE -EINVAL
    /\ calls' = [calls EXCEPT !.program = @ + 1]
    /\ Goto("pr", "L339")
    /\ UNCHANGED <<objVars, hwVars, host, pdata, out, dev, update, workPending,
                   lockOwner, wlActive>>

(* 339: mutex_init. *)
issp_probe_L339 ==
    /\ pc["pr"] = "L339"
    /\ lockInit' = TRUE
    /\ lockOwner' = "none"
    /\ Goto("pr", "L340")
    /\ UNCHANGED <<g_issp_host, hostLive, g_issp_wake_lock, wlLive, wlInit,
                   issp_workqueue, wqLive, workInit, sysfs, fwHeld, hwVars,
                   probeVars, workPending, wlActive>>

(* 340-354: device_create_file of the four attributes.  A failure is only  *)
(* logged and leaves the attribute absent, which no run can tell from the  *)
(* attribute never being written.                                          *)
device_create_file(attr, l) ==
    /\ sysfs' = sysfs \cup {attr}
    /\ ret' = 0
    /\ Goto("pr", l)
    /\ UNCHANGED <<g_issp_host, hostLive, g_issp_wake_lock, wlLive, wlInit,
                   issp_workqueue, wqLive, workInit, lockInit, fwHeld, hwVars,
                   host, pdata, calls, out, dev, update, workPending,
                   lockOwner, wlActive>>

issp_probe_L340 == pc["pr"] = "L340" /\ device_create_file("issp_reset", "L344")

issp_probe_L344 == pc["pr"] = "L344" /\ device_create_file("issp_usbreset", "L348")

issp_probe_L348 == pc["pr"] = "L348" /\ device_create_file("issp_data", "L352")

issp_probe_L352 == pc["pr"] = "L352" /\ device_create_file("issp_clk", "L356")

(* 356-359: the wake lock allocation. *)
issp_probe_L356 ==
    /\ pc["pr"] = "L356"
    /\ \E ok \in BOOLEAN :
          IF ok
          THEN /\ g_issp_wake_lock' = "wl"
               /\ wlLive' = TRUE
               /\ wlInit' = FALSE
               /\ wlActive' = FALSE
               /\ Goto("pr", "L363")
          ELSE /\ g_issp_wake_lock' = "NULL"
               /\ UNCHANGED <<wlLive, wlInit, wlActive>>
               /\ Goto("pr", "L384")
    /\ UNCHANGED <<g_issp_host, hostLive, issp_workqueue, wqLive, workInit,
                   lockInit, sysfs, fwHeld, hwVars, probeVars, workPending,
                   lockOwner>>

(* 363: wake_lock_init. *)
issp_probe_L363 ==
    /\ pc["pr"] = "L363"
    /\ wlInit' = TRUE
    /\ wlActive' = FALSE
    /\ Goto("pr", "L367")
    /\ UNCHANGED <<g_issp_host, hostLive, g_issp_wake_lock, wlLive,
                   issp_workqueue, wqLive, workInit, lockInit, sysfs, fwHeld,
                   hwVars, probeVars, workPending, lockOwner>>

(* 367-371: create_workqueue. *)
issp_probe_L367 ==
    /\ pc["pr"] = "L367"
    /\ \E ok \in BOOLEAN :
          IF ok
          THEN /\ issp_workqueue' = "wq"
               /\ wqLive' = TRUE
               /\ Goto("pr", "L372")
          ELSE /\ issp_workqueue' = "NULL"
               /\ wqLive' = wqLive
               /\ Goto("pr", "L382")
    /\ UNCHANGED <<g_issp_host, hostLive, g_issp_wake_lock, wlLive, wlInit,
                   workInit, lockInit, sysfs, fwHeld, hwVars, probeVars,
                   workPending, lockOwner, wlActive>>

(* 372: INIT_DELAYED_WORK. *)
issp_probe_L372 ==
    /\ pc["pr"] = "L372"
    /\ workInit' = TRUE
    /\ workPending' = FALSE
    /\ Goto("pr", "L375")
    /\ UNCHANGED <<g_issp_host, hostLive, g_issp_wake_lock, wlLive, wlInit,
                   issp_workqueue, wqLive, lockInit, sysfs, fwHeld, hwVars,
                   probeVars, lockOwner, wlActive>>

(* err_id, 375: issp_uc_run leaves programming mode. *)
issp_uc_run ==
    /\ uc' = "running"
    /\ calls' = [calls EXCEPT !.run = @ + 1]

issp_probe_L375 ==
    /\ pc["pr"] = "L375"
    /\ issp_uc_run
    /\ Goto("pr", "L376")
    /\ UNCHANGED <<objVars, usb, gpioDir, gpioVal, host, pdata, dev, ret,
                   update, out, workPending, lockOwner, wlActive>>

(* 376-377: both lines back to input. *)
issp_probe_L376 ==
    /\ pc["pr"] = "L376"
    /\ gpioDir' = [data |-> "in", clk |-> "in"]
    /\ Goto("pr", "L378")
    /\ UNCHANGED <<objVars, uc, usb, gpioVal, probeVars, workPending,
                   lockOwner, wlActive>>

(* 378-379: release_firmware; return 0: the driver is bound. *)
issp_probe_L378 ==
    /\ pc["pr"] = "L378"
    /\ fwHeld' = FALSE
    /\ ret' = 0
    /\ update' = "unset"
    /\ dev' = NoDev
    /\ Goto("pr", "bound")
    /\ UNCHANGED <<g_issp_host, hostLive, g_issp_wake_lock, wlLive, wlInit,
                   issp_workqueue, wqLive, workInit, lockInit, sysfs, hwVars,
                   host, pdata, calls, out, workPending, lockOwner, wlActive>>

(* err_work, 382: devm_kfree(dev, g_issp_wake_lock); the pointer stays. *)
issp_probe_L382 ==
    /\ pc["pr"] = "L382"
    /\ wlLive' = FALSE
    /\ Goto("pr", "L384")
    /\ UNCHANGED <<g_issp_host, hostLive, g_issp_wake_lock, wlInit,
                   issp_workqueue, wqLive, workInit, lockInit, sysfs, fwHeld,
                   hwVars, probeVars, workPending, lockOwner, wlActive>>

(* err, 384-385: both lines to input. *)
issp_probe_L384 ==
    /\ pc["pr"] = "L384"
    /\ gpioDir' = [data |-> "in", clk |-> "in"]
    /\ Goto("pr", "L386")
    /\ UNCHANGED <<objVars, uc, usb, gpioVal, probeVars, workPending,
                   lockOwner, wlActive>>

(* 386-388: release_firmware, devm_kfree(dev, host), return -ENOMEM; the   *)
(* pointer g_issp_host stays.                                              *)
issp_probe_L386 ==
    /\ pc["pr"] = "L386"
    /\ fwHeld' = FALSE
    /\ hostLive' = FALSE
    /\ wlLive' = FALSE
    /\ ret' = -ENOMEM
    /\ update' = "unset"
    /\ dev' = NoDev
    /\ Goto("pr", "failed")
    /\ UNCHANGED <<g_issp_host, g_issp_wake_lock, wlInit, issp_workqueue,
                   wqLive, workInit, lockInit, sysfs, hwVars, host, pdata,
                   calls, out, workPending, lockOwner, wlActive>>

-----------------------------------------------------------------------------
(* issp_remove, issp.c:391-405: runs once the driver is bound. *)

issp_remove_L393 ==
    /\ pc["rm"] = "idle"
    /\ pc["pr"] = "bound"
    /\ g_issp_host' = "NULL"
    /\ Goto("rm", "L396")
    /\ UNCHANGED <<hostLive, g_issp_wake_lock, wlLive, wlInit, issp_workqueue,
                   wqLive, workInit, lockInit, sysfs, fwHeld, hwVars,
                   probeVars, workPending, lockOwner, wlActive>>

(* 396-399: destroy_workqueue waits for the work that is running; a work   *)
(* whose delay has not passed stays armed.                                 *)
issp_remove_L396 ==
    /\ pc["rm"] = "L396"
    /\ IF issp_workqueue # "NULL"
       THEN /\ pc["wk"] = "idle"
            /\ wqLive' = FALSE
            /\ issp_workqueue' = "NULL"
       ELSE UNCHANGED <<wqLive, issp_workqueue>>
    /\ Goto("rm", "L401")
    /\ UNCHANGED <<g_issp_host, hostLive, g_issp_wake_lock, wlLive, wlInit,
                   workInit, lockInit, sysfs, fwHeld, hwVars, probeVars,
                   workPending, lockOwner, wlActive>>

(* 401-402: wake_lock_destroy. *)
issp_remove_L401 ==
    /\ pc["rm"] = "L401"
    /\ IF g_issp_wake_lock # "NULL"
       THEN /\ wlInit' = FALSE
            /\ wlActive' = FALSE
       ELSE UNCHANGED <<wlInit, wlActive>>
    /\ Goto("rm", "L404")
    /\ UNCHANGED <<g_issp_host, hostLive, g_issp_wake_lock, wlLive,
                   issp_workqueue, wqLive, workInit, lockInit, sysfs, fwHeld,
                   hwVars, probeVars, workPending, lockOwner>>

(* 404: return 0; the driver core releases the device-managed memory. *)
issp_remove_L404 ==
    /\ pc["rm"] = "L404"
    /\ hostLive' = FALSE
    /\ wlLive' = FALSE
    /\ Goto("rm", "done")
    /\ UNCHANGED <<g_issp_host, g_issp_wake_lock, wlInit, issp_workqueue,
                   wqLive, workInit, lockInit, sysfs, fwHeld, hwVars,
                   probeVars, workPending, lockOwner, wlActive>>

-----------------------------------------------------------------------------
(* The driver before issp_init: every global is zero. *)

Idle == [t \in Threads |-> "idle"]

(* Nothing has been asked of the programmer; read_block is the block index *)
(* and offset of the last issp_read_block.                                 *)
NoCalls == [uc_program |-> 0, program |-> 0, run |-> 0, read_block |-> <<>>]

(* What line 312 and line 328 find: the globals the later lines of         *)
(* issp_probe set are still zero.                                          *)
LaterGlobalsZero ==
    /\ g_issp_wake_lock = "NULL" /\ wlLive = FALSE /\ wlInit = FALSE
    /\ wlActive = FALSE
    /\ issp_workqueue = "NULL" /\ wqLive = FALSE
    /\ workInit = FALSE /\ workPending = FALSE
    /\ lockInit = FALSE /\ lockOwner = "none"
    /\ sysfs = {}
    /\ usb = "loaded"
    /\ gpioVal = [data |-> 0, clk |-> 0]

Init ==
    /\ pc = [Idle EXCEPT !["pr"] = "L279"]
    /\ g_issp_host = "NULL" /\ hostLive = FALSE
    /\ LaterGlobalsZero
    /\ fwHeld = FALSE
    /\ uc = "running"
    /\ gpioDir = [data |-> "in", clk |-> "in"]
    /\ host = HostZero
    /\ pdata = ProbePdata(FALSE)
    /\ dev = NoDev
    /\ ret = 0
    /\ update = "unset"
    /\ calls = NoCalls
    /\ out = <<>>

Next ==
    \/ issp_probe_L279 \/ issp_probe_L299 \/ issp_probe_L306
    \/ issp_probe_L312 \/ issp_probe_L318 \/ issp_probe_L320
    \/ issp_probe_L328 \/ issp_probe_L331 \/ issp_probe_L332
    \/ issp_probe_L339 \/ issp_probe_L340 \/ issp_probe_L344
    \/ issp_probe_L348 \/ issp_probe_L352 \/ issp_probe_L356
    \/ issp_probe_L363 \/ issp_probe_L367 \/ issp_probe_L372
    \/ issp_probe_L375 \/ issp_probe_L376 \/ issp_probe_L378
    \/ issp_probe_L382 \/ issp_probe_L384 \/ issp_probe_L386
    \/ issp_remove_L393 \/ issp_remove_L396 \/ issp_remove_L401
    \/ issp_remove_L404
    \/ issp_reset_set_L192 \/ issp_reset_set_L193 \/ issp_reset_set_L194
    \/ issp_reset_set_L195 \/ issp_reset_set_L196 \/ issp_reset_set_L197
    \/ issp_usbreset_set_L205 \/ issp_usbreset_set_L206
    \/ issp_usbreset_set_L207 \/ issp_usbreset_set_L208
    \/ issp_usbreset_set_L209 \/ issp_usbreset_set_L210
    \/ issp_usbreset_set_L211 \/ issp_usbreset_set_L212
    \/ issp_data_set \/ issp_clk_set
    \/ issp_start_recovery_work_L176 \/ issp_start_recovery_work_L184
    \/ issp_start_recovery_work_L185
    \/ recovery_work_fire
    \/ issp_recovery_work_func_L152 \/ issp_recovery_work_func_L162
    \/ issp_recovery_work_func_L163 \/ issp_recovery_work_func_L164
    \/ issp_recovery_work_func_L165 \/ issp_recovery_work_func_L166
    \/ issp_recovery_work_func_L167 \/ issp_recovery_work_func_L171

Spec == Init /\ [][Next]_vars

-----------------------------------------------------------------------------
(* issp_check_fw on every image of the bounds: issp_probe stands at line   *)
(* 312 with the image loaded.                                              *)

FwPdata(va) == [block_size |-> 2, blocks |-> 1, version_addr |-> va,
                force_update |-> FALSE, si_id |-> <<1, 2, 3, 4>>]

InitFw ==
    /\ pc = [Idle EXCEPT !["pr"] = "L312"]
    /\ g_issp_host = "host" /\ hostLive = TRUE
    /\ LaterGlobalsZero
    /\ fwHeld = TRUE
    /\ uc = "running"
    /\ gpioDir = [data |-> "in", clk |-> "out"]
    /\ \E img \in FwImages : host = [HostZero EXCEPT !.fw = img]
    /\ \E va \in 0..MaxAddr : pdata = FwPdata(va)
    /\ dev = NoDev
    /\ ret = 0
    /\ update = "unset"
    /\ calls = NoCalls
    /\ out = <<>>

NextFw == issp_probe_L312

SpecFw == InitFw /\ [][NextFw]_vars

(* issp_need_update on every device answer and embedded version of the     *)
(* bounds: issp_probe stands at line 328, the controller in programming    *)
(* mode, the silicon id matched.                                           *)

InitNeedUpdate ==
    /\ pc = [Idle EXCEPT !["pr"] = "L328"]
    /\ g_issp_host = "host" /\ hostLive = TRUE
    /\ LaterGlobalsZero
    /\ fwHeld = TRUE
    /\ uc = "programming"
    /\ gpioDir = [data |-> "out", clk |-> "out"]
    /\ \E e \in VerBytes :
          host = [HostZero EXCEPT !.fw = ImgValid, !.version_fw = e,
                                  !.security_rec = 2, !.checksum_fw = 258,
                                  !.si_id = <<1, 2, 3, 4>>]
    /\ \E f \in BOOLEAN : pdata = ProbePdata(f)
    /\ \E r \in ReadRets, v \in VerBytes : dev = [ret |-> r, ver |-> v]
    /\ ret = 0
    /\ update = "unset"
    /\ calls = [NoCalls EXCEPT !.uc_program = 1]
    /\ out = <<>>

NextNeedUpdate == issp_probe_L328 \/ issp_probe_L331 \/ issp_probe_L332

SpecNeedUpdate == InitNeedUpdate /\ [][NextNeedUpdate]_vars

-----------------------------------------------------------------------------
(* Vocabulary of the properties. *)

ResetThreads == {"rs", "us", "wk"}

(* Thread t is inside its reset-affecting sequence: it has returned from   *)
(* mutex_lock and has not yet returned from mutex_unlock.                  *)
InSeq(t) ==
    \/ t = "rs" /\ pc[t] \in {"L194", "L195"}
    \/ t = "us" /\ pc[t] \in {"L207", "L208", "L209", "L210"}
    \/ t = "wk" /\ pc[t] \in {"L163", "L164", "L165", "L166"}

(* Thread t stands at its mutex_lock. *)
AtLock(t) ==
    \/ t = "rs" /\ pc[t] = "L193"
    \/ t = "us" /\ pc[t] = "L206"
    \/ t = "wk" /\ pc[t] = "L162"

(* This step is issp_uc_reset() by one of the three recovery paths. *)
ResetStep ==
    \/ pc["rs"] = "L194" /\ pc'["rs"] = "L195"
    \/ pc["us"] = "L208" /\ pc'["us"] = "L209"
    \/ pc["wk"] = "L164" /\ pc'["wk"] = "L165"

(* An autonomous recovery is scheduled, or has fired and not yet finished  *)
(* its settle pause (line 167).                                            *)
RecoveryOutstanding ==
    \/ workPending
    \/ pc["wk"] \in {"L152", "L162", "L163", "L164", "L165", "L166", "L167"}

(* issp_probe is between issp_uc_program (318) and issp_uc_run (375). *)
ProgrammingInFlight ==
    pc["pr"] \in {"L320", "L328", "L331", "L332", "L339", "L340", "L344",
                  "L348", "L352", "L356", "L363", "L367", "L372", "L375"}

-----------------------------------------------------------------------------
(* C1: across any interleaving of issp_reset_set, issp_usbreset_set and    *)
(* issp_recovery_work_func, at most one of them is inside its              *)
(* reset-affecting sequence at any time, and a thread enters its sequence  *)
(* only in a step that finds the lock free and nobody else inside.         *)
C1_ResetSequencesExclusive ==
    /\ [](\A t, u \in ResetThreads : InSeq(t) /\ InSeq(u) => t = u)
    /\ [][\A t \in ResetThreads :
             (~InSeq(t) /\ InSeq(t)') =>
                 /\ AtLock(t)
                 /\ lockOwner = "none"
                 /\ lockOwner' = t
                 /\ \A u \in ResetThreads : ~InSeq(u)]_vars

(* The recovery task is inside its sequence, between unload and reload,    *)
(* while both manual requests wait at their mutex_lock.                    *)
C1_Witness ==
    /\ pc["wk"] = "L164"
    /\ usb = "unloaded"
    /\ lockOwner = "wk"
    /\ pc["us"] = "L206"
    /\ pc["rs"] = "L193"
    /\ hostLive /\ g_issp_host = "host"

(* C2: from the scheduling of an autonomous recovery until the end of its  *)
(* settle pause the suspend guard is held, and while a recovery is         *)
(* outstanding or at its end the guard is released only by the recovery    *)
(* task's wake_unlock of line 171.                                         *)
C2_GuardHeldUntilRecoveryEnd ==
    /\ [](RecoveryOutstanding => wlActive)
    /\ [][((RecoveryOutstanding \/ pc["wk"] = "L171") /\ wlActive /\ ~wlActive')
             => (pc["wk"] = "L171" /\ pc'["wk"] = "idle")]_vars

(* C3: when the recovery task makes its guard check (line 153) while the   *)
(* suspend guard is not held, it returns at once: it goes on to no lock,   *)
(* unload, reset, reload or guard release.                                 *)
C3_AbortsWhenGuardNotHeld ==
    [][(pc["wk"] = "L152" /\ ~wlActive /\ pc'["wk"] # "L152")
          => pc'["wk"] = "idle"]_vars

(* C4: no issp_uc_reset() of the three recovery paths happens while        *)
(* issp_probe is between issp_uc_program and issp_uc_run.                  *)
C4_NoResetDuringProgramming ==
    [][ProgrammingInFlight => ~ResetStep]_vars

(* C5: once issp_remove has begun, the recovery task neither starts on the *)
(* destroyed workqueue, nor executes a step that uses the cleared host     *)
(* context, nor releases the destroyed guard.                              *)
C5_TaskNeverOutlivesContext ==
    [][pc["rm"] # "idle" =>
          /\ (pc["wk"] = "idle" /\ pc'["wk"] # "idle") => wqLive
          /\ (pc["wk"] \in {"L152", "L162", "L166"} /\ pc'["wk"] # pc["wk"])
                => g_issp_host # "NULL"
          /\ (pc["wk"] = "L171" /\ pc'["wk"] # pc["wk"]) => wlInit]_vars

(* C6: while a reset sequence holds the lock, no raw write changes the     *)
(* data or clock line and issp_probe performs neither its controller run   *)
(* nor its line release.                                                   *)
C6_HardwareOnlyUnderLock ==
    [][(\E t \in ResetThreads : InSeq(t)) =>
          /\ gpioVal' = gpioVal
          /\ ~(pc["pr"] \in {"L375", "L376"} /\ pc'["pr"] # pc["pr"])]_vars

-----------------------------------------------------------------------------
(* The four required markers of an image, as the specification words them. *)

RecAddr(r) == be32_to_cpu(r.addr)

RecLen(r) == be16_to_cpu(r.len)

Records == 1..Len(host.fw)

IsSizeMarker(i) ==
    RecAddr(host.fw[i]) + RecLen(host.fw[i]) = pdata.block_size * pdata.blocks

IsSecurityMarker(i) == RecAddr(host.fw[i]) = ISSP_FW_SECURITY_ADDR

IsChecksumMarker(i) == RecAddr(host.fw[i]) = ISSP_FW_CHECKSUM_ADDR

IsVersionMarker(i) ==
    /\ RecAddr(host.fw[i]) <= pdata.version_addr
    /\ pdata.version_addr < RecAddr(host.fw[i]) + RecLen(host.fw[i])

AllMarkers ==
    /\ \E i \in Records : IsSizeMarker(i)
    /\ \E i \in Records : IsSecurityMarker(i)
    /\ \E i \in Records : IsChecksumMarker(i)
    /\ \E i \in Records : IsVersionMarker(i)

(* issp_check_fw has returned. *)
CheckDone == pc["pr"] \in {"L318", "L384"}

(* C7: an image that lacks one of the four markers fails issp_check_fw     *)
(* with -EINVAL, also when another marker is matched by several records.   *)
C7_MissingMarkerFails ==
    (CheckDone /\ ~AllMarkers) => ret = -EINVAL

(* C8: an image that has all four markers passes issp_check_fw, which      *)
(* leaves checksum_fw the big-endian value of the first two data bytes of  *)
(* a checksum record (every checksum record having two), version_fw the    *)
(* byte at the version address of a record that contains it, and           *)
(* security_rec a record at the security address.                          *)
C8_AllMarkersExtracted ==
    (/\ CheckDone
     /\ AllMarkers
     /\ \A i \in Records : IsChecksumMarker(i) => Len(host.fw[i].data) >= 2) =>
        /\ ret = 0
        /\ \E i \in Records :
              /\ IsChecksumMarker(i)
              /\ Len(host.fw[i].data) >= 2
              /\ host.checksum_fw
                    = host.fw[i].data[1] * 256 + host.fw[i].data[2]
        /\ \E i \in Records :
              /\ IsVersionMarker(i)
              /\ host.version_fw
                    = host.fw[i].data[pdata.version_addr
                                      - RecAddr(host.fw[i]) + 1]
        /\ host.security_rec \in Records
        /\ IsSecurityMarker(host.security_rec)

-----------------------------------------------------------------------------
(* issp_need_update has returned: line 331 on success, err_id on error. *)
DecisionDone == pc["pr"] \in {"L331", "L375"}

(* C9: after a read of one byte issp_need_update returns 0 with update =   *)
(* (d < e) or (d != e and force); after an access-protected read it        *)
(* returns 0 with update = true.                                           *)
C9_UpdateDecision ==
    DecisionDone =>
        /\ dev.ret = 1 =>
              /\ ret = 0
              /\ pc["pr"] = "L331"
              /\ update \in {"true", "false"}
              /\ (update = "true") <=>
                    \/ dev.ver < host.version_fw
                    \/ dev.ver # host.version_fw /\ pdata.force_update
        /\ dev.ret = -EACCES =>
              /\ ret = 0
              /\ pc["pr"] = "L331"
              /\ update = "true"

(* Device 0x10, image 0x08, force: the versions differ and the update is   *)
(* forced.                                                                 *)
C9_Witness ==
    /\ pc["pr"] = "L331"
    /\ dev = [ret |-> 1, ver |-> 16]
    /\ host.version_fw = 8
    /\ pdata.force_update
    /\ update = "true"

(* C10: on a read outcome other than one byte read and access-protected,   *)
(* issp_need_update returns an error and issp_probe does not reach its     *)
(* test of update (331) or issp_program (332); whenever issp_probe tests   *)
(* update, issp_need_update has assigned it.                               *)
C10_NoDecisionOnReadError ==
    /\ pc["pr"] \in {"L331", "L332"} => dev.ret \in {1, -EACCES}
    /\ pc["pr"] = "L331" => update # "unset"

-----------------------------------------------------------------------------
(* issp_probe has returned. *)
ProbeReturned == pc["pr"] \in {"bound", "failed"}

(* This step is the return of issp_probe (379 or 388). *)
ProbeReturns == ~ProbeReturned /\ ProbeReturned'

LinesReleased == gpioDir = [data |-> "in", clk |-> "in"]

(* C11: once issp_uc_program has put the controller into programming mode, *)
(* the firmware image is released only after issp_uc_run and with both     *)
(* lines back to input, and issp_probe returns with the controller running *)
(* and no line driven.                                                     *)
C11_RunAndReleaseOnEveryPath ==
    /\ (calls.uc_program > 0 /\ ~fwHeld) => (calls.run > 0 /\ LinesReleased)
    /\ (calls.uc_program > 0 /\ ProbeReturned) =>
          (calls.run > 0 /\ uc = "running" /\ LinesReleased)

(* C12: when issp_probe returns after a valid image, a matching silicon id *)
(* and a version read of one byte that is below the embedded version, it   *)
(* has called issp_program exactly once and issp_uc_run exactly once, the  *)
(* run after the programming.                                              *)
C12_OneProgramThenOneRun ==
    [][/\ (/\ ProbeReturns
           /\ calls.uc_program > 0
           /\ ~si_id_mismatch(host, pdata)
           /\ dev.ret = 1
           /\ dev.ver < host.version_fw)
          => (calls'.program = 1 /\ calls'.run = 1)
       /\ (calls'.program # calls.program) => calls.run = 0]_vars

(* C13: issp_probe returns a non-zero result when the silicon id read from *)
(* the controller differs from the expected one in any byte, and when the  *)
(* version read fails with an error other than -EACCES.                    *)
C13_MismatchAndReadErrorFail ==
    [][(/\ ProbeReturns
        /\ calls.uc_program > 0
        /\ \/ si_id_mismatch(host, pdata)
           \/ (calls.read_block # <<>> /\ dev.ret < 0 /\ dev.ret # -EACCES))
          => ret' # 0]_vars

-----------------------------------------------------------------------------
(* The firmware cursor, issp.c:82-105, as issp_program uses it (line 332). *)

(* 82-86: issp_fw_rewind; host->fw->data is the first record. *)
issp_fw_rewind ==
    /\ pc["pr"] = "L332"
    /\ host' = [host EXCEPT !.cur_rec = 1, !.cur_idx = 0]
    /\ out' = <<>>
    /\ UNCHANGED <<pc, objVars, hwVars, pdata, dev, ret, update, calls,
                   workPending, lockOwner, wlActive>>

rec_exhausted_Mut(idx, len) == idx > len

(* 99: the cursor has passed the last data byte of the record. *)
rec_exhausted(idx, len) == idx >= len

(* 94-105: issp_fw_get_byte; a NULL cur_rec faults at line 97. *)
issp_fw_get_byte ==
    /\ pc["pr"] = "L332"
    /\ IF host.cur_rec = 0
       THEN /\ Fault("pr")
            /\ UNCHANGED <<host, out>>
       ELSE \E oob \in FwBytes :
               LET rec  == host.fw[host.cur_rec]
                   byte == rec_data(rec, host.cur_idx, oob) % 256
                   idx  == host.cur_idx + 1
               IN /\ host' = IF rec_exhausted(idx, be16_to_cpu(rec.len))
                             THEN [host EXCEPT
                                     !.cur_rec = ihex_next_binrec(host.fw, @),
                                     !.cur_idx = 0]
                             ELSE [host EXCEPT !.cur_idx = idx]
                  /\ out' = Append(out, byte)
                  /\ pc' = pc
    /\ UNCHANGED <<objVars, hwVars, pdata, dev, ret, update, calls,
                   workPending, lockOwner, wlActive>>

(* Images for the cursor: records of 1..MaxLen data bytes. *)
ReadImages == UNION {[1..n -> {Rec(0, d) : d \in DataSeqs}] : n \in 1..MaxRecs}

(* issp_probe stands inside issp_program with the image loaded and the     *)
(* cursor as devm_kzalloc left it.                                         *)
InitFwRead ==
    /\ pc = [Idle EXCEPT !["pr"] = "L332"]
    /\ g_issp_host = "host" /\ hostLive = TRUE
    /\ LaterGlobalsZero
    /\ fwHeld = TRUE
    /\ uc = "programming"
    /\ gpioDir = [data |-> "out", clk |-> "out"]
    /\ \E img \in ReadImages : host = [HostZero EXCEPT !.fw = img]
    /\ pdata = ProbePdata(FALSE)
    /\ dev = NoDev
    /\ ret = 0
    /\ update = "true"
    /\ calls = [NoCalls EXCEPT !.uc_program = 1]
    /\ out = <<>>

NextFwRead == issp_fw_rewind \/ issp_fw_get_byte

SpecFwRead == InitFwRead /\ [][NextFwRead]_vars

(* The data bytes of an image, record after record. *)
RECURSIVE FwData(_)
FwData(fw) == IF fw = <<>> THEN <<>> ELSE Head(fw).data \o FwData(Tail(fw))

(* C14: after issp_fw_rewind, at any point of any pass, the bytes          *)
(* issp_fw_get_byte has returned are the leading bytes of the              *)
(* concatenation of the records' data; the cursor leaves the last record   *)
(* exactly when all bytes have been returned; and before every call the    *)
(* cursor offset is below the length of the current record.                *)
C14_SequentialRead ==
    /\ Len(out) <= Len(FwData(host.fw))
    /\ \A k \in 1..Len(out) : out[k] = FwData(host.fw)[k]
    /\ (host.cur_rec = 0 /\ out # <<>>) => out = FwData(host.fw)
    /\ host.cur_rec # 0 =>
          /\ host.cur_rec \in 1..Len(host.fw)
          /\ host.cur_idx < be16_to_cpu(host.fw[host.cur_rec].len)
          /\ Len(out) < Len(FwData(host.fw))

(* A pass over an image of three records has returned the two bytes of    *)
(* the first record and stands at the start of the second.                 *)
C14_Witness ==
    /\ Len(host.fw) = 3
    /\ Len(host.fw[1].data) = 2
    /\ host.cur_rec = 2
    /\ host.cur_idx = 0
    /\ out = host.fw[1].data
    /\ host.fw[1].data # host.fw[2].data

-----------------------------------------------------------------------------
(* The recovery task moves from line a to line b in this step. *)
WkStep(a, b) == pc["wk"] = a /\ pc'["wk"] = b

(* The recovery task leaves line a in this step without faulting. *)
WkLeaves(a) == pc["wk"] = a /\ pc'["wk"] \notin {a, "idle"}

(* C15: a firing of the recovery task that passes the guard check goes     *)
(* through its steps once each and in the order lock (162), unload (163),  *)
(* reset (164), reload (165), unlock (166), pause (167), guard release     *)
(* (171): each step is followed by the next one only, the reset is made    *)
(* with the subsystem unloaded and the lock held, and the guard is         *)
(* released by the task only in its last step, after the lock.             *)
C15_RecoveryStepsInOrder ==
    [][/\ WkLeaves("L152") => pc'["wk"] = "L162"
       /\ WkLeaves("L162") =>
             (pc'["wk"] = "L163" /\ lockOwner = "none" /\ lockOwner' = "wk")
       /\ WkLeaves("L163") =>
             (pc'["wk"] = "L164" /\ lockOwner = "wk" /\ usb' = "unloaded")
       /\ WkLeaves("L164") =>
             (/\ pc'["wk"] = "L165" /\ lockOwner = "wk"
              /\ usb = "unloaded" /\ uc' = "running")
       /\ WkLeaves("L165") =>
             (pc'["wk"] = "L166" /\ lockOwner = "wk" /\ usb' = "loaded")
       /\ WkLeaves("L166") =>
             (pc'["wk"] = "L167" /\ lockOwner = "wk" /\ lockOwner' = "none")
       /\ WkLeaves("L167") => (pc'["wk"] = "L171" /\ lockOwner # "wk")
       /\ (pc["wk"] = "L171" /\ pc'["wk"] # "L171") =>
             (pc'["wk"] = "idle" /\ lockOwner # "wk")
       /\ (pc["wk"] \in {"L163", "L164", "L165", "L167"}) => pc'["wk"] # "idle"
       /\ (pc'["wk"] # pc["wk"] /\ pc["wk"] # "L171") => wlActive' = wlActive
       /\ (pc'["wk"] # pc["wk"] /\ pc["wk"] \notin {"L163", "L165"}) => usb' = usb
       /\ (pc'["wk"] # pc["wk"] /\ pc["wk"] \notin {"L162", "L166"})
             => lockOwner' = lockOwner]_vars

(* The task has done everything but its guard release: the lock is free    *)
(* again, the subsystem reloaded, the guard still held.                    *)
C15_Witness ==
    /\ pc["wk"] = "L171"
    /\ lockOwner = "none"
    /\ usb = "loaded"
    /\ uc = "running"
    /\ wlActive
    /\ hostLive /\ g_issp_host = "host"

-----------------------------------------------------------------------------
(* This step is made by issp_reset_set or by issp_usbreset_set. *)
ManualStep == pc'["rs"] # pc["rs"] \/ pc'["us"] # pc["us"]

(* C16: no step of a manual pin reset or manual full reset releases the    *)
(* suspend guard that a scheduled or in-flight autonomous recovery holds.  *)
C16_ManualResetKeepsGuard ==
    [][(ManualStep /\ RecoveryOutstanding /\ wlActive) => wlActive']_vars

-----------------------------------------------------------------------------
(* The attached driver: issp_probe has returned 0 after a valid image that *)
(* needed no update, and issp_remove is not called.                        *)

InitAttached ==
    /\ pc = [Idle EXCEPT !["pr"] = "bound"]
    /\ g_issp_host = "host" /\ hostLive = TRUE
    /\ g_issp_wake_lock = "wl" /\ wlLive = TRUE /\ wlInit = TRUE
    /\ wlActive = FALSE
    /\ issp_workqueue = "wq" /\ wqLive = TRUE
    /\ workInit = TRUE /\ workPending = FALSE
    /\ lockInit = TRUE /\ lockOwner = "none"
    /\ sysfs = {"issp_reset", "issp_usbreset", "issp_data", "issp_clk"}
    /\ fwHeld = FALSE
    /\ uc = "running"
    /\ usb = "loaded"
    /\ gpioDir = [data |-> "in", clk |-> "in"]
    /\ gpioVal = [data |-> 0, clk |-> 0]
    /\ host = issp_check_fw([HostZero EXCEPT !.fw = ImgValid,
                                             !.si_id = <<1, 2, 3, 4>>],
                            ProbePdata(FALSE), 1).host
    /\ pdata = ProbePdata(FALSE)
    /\ dev = NoDev
    /\ ret = 0
    /\ update = "unset"
    /\ calls = [uc_program |-> 1, program |-> 0, run |-> 1,
                read_block |-> <<1, 0>>]
    /\ out = <<>>

(* The steps of each path after its entry, but for its mutex_lock. *)
ResetRun ==
    \/ issp_reset_set_L194 \/ issp_reset_set_L195 \/ issp_reset_set_L196
    \/ issp_reset_set_L197

UsbresetRun ==
    \/ issp_usbreset_set_L207 \/ issp_usbreset_set_L208
    \/ issp_usbreset_set_L209 \/ issp_usbreset_set_L210
    \/ issp_usbreset_set_L211 \/ issp_usbreset_set_L212

StartRun == issp_start_recovery_work_L184 \/ issp_start_recovery_work_L185

WorkRun ==
    \/ recovery_work_fire \/ issp_recovery_work_func_L152
    \/ issp_recovery_work_func_L163 \/ issp_recovery_work_func_L164
    \/ issp_recovery_work_func_L165 \/ issp_recovery_work_func_L166
    \/ issp_recovery_work_func_L167 \/ issp_recovery_work_func_L171

NextAttached ==
    \/ issp_reset_set_L192 \/ issp_reset_set_L193 \/ ResetRun
    \/ issp_usbreset_set_L205 \/ issp_usbreset_set_L206 \/ UsbresetRun
    \/ issp_start_recovery_work_L176 \/ StartRun
    \/ issp_recovery_work_func_L162 \/ WorkRun

(* Scheduling: a call that has been entered keeps running, the timer of    *)
(* the delayed work expires, and a thread that waits at mutex_lock gets    *)
(* the lock if it is released again and again.  Whether a request is made  *)
(* at all is up to the callers.                                            *)
FairAttached ==
    /\ WF_vars(ResetRun) /\ SF_vars(issp_reset_set_L193)
    /\ WF_vars(UsbresetRun) /\ SF_vars(issp_usbreset_set_L206)
    /\ WF_vars(StartRun)
    /\ WF_vars(WorkRun) /\ SF_vars(issp_recovery_work_func_L162)

SpecLive == InitAttached /\ [][NextAttached]_vars /\ FairAttached

(* C17: in the attached driver every manual request and every firing of    *)
(* the recovery task that has started returns, a lock that is held is      *)
(* released, and a recovery that is scheduled fires, reaches its guard     *)
(* release and returns with the guard released.                            *)
C17_SequencesComplete ==
    /\ (pc["rs"] # "idle") ~> (pc["rs"] = "idle")
    /\ (pc["us"] # "idle") ~> (pc["us"] = "idle")
    /\ (pc["wk"] # "idle") ~> (pc["wk"] = "idle")
    /\ \A t \in ResetThreads : (lockOwner = t) ~> (lockOwner = "none")
    /\ workPending ~> (pc["wk"] = "L171")
    /\ (pc["wk"] = "L171") ~> (pc["wk"] = "idle" /\ ~wlActive)

(* A recovery is scheduled while a manual full reset holds the lock and a  *)
(* manual pin reset and the running recovery task wait for it.             *)
C17_Witness ==
    /\ workPending
    /\ lockOwner = "us"
    /\ pc["us"] = "L208"
    /\ pc["rs"] = "L193"
    /\ pc["wk"] = "L162"

-----------------------------------------------------------------------------
(* issp_need_update on the configurations of the bounds: issp_probe stands *)
(* at line 328 and the device answers the version read with one byte.      *)

MaxVersionAddr == 300

(* Block sizes of the configurations; a block of 512 bytes has offsets     *)
(* that need more than 8 bits.  The version address is 1..MaxVersionAddr.  *)
BlockSizes == {1, 64, 128, 512}

(* A configuration of 512 blocks with the version byte at va, and an image *)
(* that is valid for it.                                                   *)
DecomposePdata(va, bs) ==
    [ProbePdata(FALSE) EXCEPT !.version_addr = va, !.block_size = bs,
                              !.blocks = 512]

DecomposeImage(va, bs) ==
    << Rec(512 * bs - 1, <<1>>), Rec(va - 1, <<2, 1>>),
       Rec(ISSP_FW_SECURITY_ADDR, <<1>>), Rec(ISSP_FW_CHECKSUM_ADDR, <<1, 2>>) >>

InitDecompose ==
    /\ pc = [Idle EXCEPT !["pr"] = "L328"]
    /\ g_issp_host = "host" /\ hostLive = TRUE
    /\ LaterGlobalsZero
    /\ fwHeld = TRUE
    /\ uc = "programming"
    /\ gpioDir = [data |-> "out", clk |-> "out"]
    /\ \E va \in 1..MaxVersionAddr, bs \in BlockSizes :
          /\ pdata = DecomposePdata(va, bs)
          /\ host = issp_check_fw([HostZero EXCEPT
                                     !.fw = DecomposeImage(va, bs),
                                     !.si_id = <<1, 2, 3, 4>>],
                                  DecomposePdata(va, bs), 1).host
    /\ dev = [ret |-> 1, ver |-> 1]
    /\ ret = 0
    /\ update = "unset"
    /\ calls = [NoCalls EXCEPT !.uc_program = 1]
    /\ out = <<>>

NextDecompose == issp_probe_L328

SpecDecompose == InitDecompose /\ [][NextDecompose]_vars

(* C18: the block index and the offset that issp_need_update passes to     *)
(* issp_read_block are version_addr / block_size and version_addr mod      *)
(* block_size.                                                             *)
C18_AddressDecomposition ==
    calls.read_block # <<>> =>
        calls.read_block = << pdata.version_addr \div pdata.block_size,
                              pdata.version_addr % pdata.block_size >>

-----------------------------------------------------------------------------
(* A process-wide handle points to an object that has been released. *)
DanglingHost == g_issp_host # "NULL" /\ ~hostLive

DanglingGuard == g_issp_wake_lock # "NULL" /\ ~wlLive

(* A manual reset endpoint is registered. *)
ResetEndpoint == "issp_reset" \in sysfs \/ "issp_usbreset" \in sysfs

(* C19: after issp_probe has failed with the image loaded (invalid image,  *)
(* guard allocation or workqueue creation failed) the image is released,   *)
(* neither g_issp_host nor g_issp_wake_lock points to a released object,   *)
(* and no reset endpoint is left registered on the released context.       *)
C19_AbortLeavesNothingDangling ==
    (pc["pr"] = "failed" /\ host.fw # <<>>) =>
        /\ ~fwHeld
        /\ ~DanglingHost
        /\ ~DanglingGuard
        /\ ~ResetEndpoint

(* C20: while a manual reset endpoint is registered, the host context, its *)
(* lock and the suspend guard are allocated and initialised; a call of     *)
(* issp_start_recovery_work goes on to its wake_lock only with lock and    *)
(* guard initialised, and one that finds no workqueue returns before it    *)
(* takes the guard or queues the work.                                     *)
C20_EntryPointsFindLockAndGuard ==
    /\ [](ResetEndpoint =>
            /\ g_issp_host # "NULL" /\ hostLive /\ lockInit
            /\ g_issp_wake_lock # "NULL" /\ wlLive /\ wlInit)
    /\ [][(pc["sr"] = "idle" /\ pc'["sr"] # "idle") =>
             (wlLive /\ wlInit /\ lockInit)]_vars
    /\ [][(pc["sr"] = "idle" /\ issp_workqueue = "NULL") =>
             pc'["sr"] = "idle"]_vars

=============================================================================
